---- MODULE Spec2Model ----
(***************************************************************************)
(* Model of the Frontier Silicon client library, src/fsapi/__init__.py.    *)
(*                                                                         *)
(* Encoding of Python values:                                              *)
(*   Optional[T]      a sequence of length <= 1: None is <<>>, x is <<x>>  *)
(*   str              a TLA+ string                                        *)
(*   dict             a function whose domain is the set of keys           *)
(*   Element          [tag, attrib, text, kids], kids a sequence           *)
(*   return / raise   Ret(v) / Raise(e)                                    *)
(***************************************************************************)
EXTENDS Integers, Sequences, FiniteSets, TLC

VARIABLES
    pc,                \* "new": no object yet; "ready": __init__ returned; "aborted": __init__ raised
    pin,               \* self.pin
    sid,               \* self.sid
    webfsapi,          \* self.webfsapi
    fsapi_device_url,  \* self.fsapi_device_url
    timeout,           \* self.timeout
    op,                \* the last operation invoked and its arguments
    sent,              \* the HTTP requests the last operation issued, in order
    resps,             \* the device's replies to those requests, in order
    outcome,           \* what the last operation returned or raised
    nreq               \* number of HTTP requests issued so far

vars == <<pc, pin, sid, webfsapi, fsapi_device_url, timeout, op, sent, resps, outcome, nreq>>

----------------------------------------------------------------------------
(* Python values *)

None == <<>>
Some(x) == <<x>>

Ret(v) == [kind |-> "return", val |-> v]
Raise(e) == [kind |-> "raise", val |-> e]
IsRaise(x) == x.kind = "raise"

\* values of a parameter map: DataItem = Union[str, int]
Str(s) == [str |-> s]
Int_(n) == [int |-> n]

\* truth value of an Optional[str]: None and "" are false
StrTruthy(o) == Len(o) = 1 /\ o[1] # ""

\* dict.update
update(d, e) == [k \in (DOMAIN d) \cup (DOMAIN e) |-> IF k \in DOMAIN e THEN e[k] ELSE d[k]]

EmptyDict == [k \in {} |-> Str("")]

----------------------------------------------------------------------------
(* XML documents *)

NoAttr == [name |-> None, key |-> None]
El(tag, text, kids) == [tag |-> tag, attrib |-> NoAttr, text |-> text, kids |-> kids]
ElA(tag, attrib, text, kids) == [tag |-> tag, attrib |-> attrib, text |-> text, kids |-> kids]
Leaf(tag, s) == El(tag, Some(s), <<>>)
Bare(tag) == El(tag, None, <<>>)

\* a path: absolute is a leading "/", segs the element names between slashes
Path(segs) == [absolute |-> FALSE, segs |-> segs]
AbsPath(segs) == [absolute |-> TRUE, segs |-> segs]

\* the children of every element of elems whose tag is tag, in document order
RECURSIVE ChildrenTagged(_, _)
ChildrenTagged(elems, tag) ==
    IF Len(elems) = 0 THEN <<>>
    ELSE SelectSeq(Head(elems).kids, LAMBDA c : c.tag = tag)
            \o ChildrenTagged(Tail(elems), tag)

\* Element.findall: every element reached from root along segs, in document order
RECURSIVE findall(_, _)
findall(elems, segs) ==
    IF Len(segs) = 0 THEN elems
    ELSE findall(ChildrenTagged(elems, Head(segs)), Tail(segs))

\* Element.find: the first match or None; an absolute path is refused
find(root, key) ==
    IF key.absolute THEN Raise("SyntaxError")
    ELSE LET m == findall(<<root>>, key.segs)
         IN  Ret(IF Len(m) = 0 THEN None ELSE Some(m[1]))

\* Element.__bool__: an element is true when it has children
ElTruthy(root) == Len(root) = 1 /\ Len(root[1].kids) > 0

\* str(x) for x an Optional[str]
str_text(t) == IF Len(t) = 0 THEN "None" ELSE t[1]

\* ET.fromstring: a body is <<root>> when it is well-formed XML, <<>> otherwise
fromstring(content) ==
    IF Len(content) = 0 THEN Raise("ParseError") ELSE Ret(content[1])

unpack_xml(root, key) ==
    IF ElTruthy(root)
    THEN LET element == find(root[1], key)
         IN  IF IsRaise(element) THEN element
             ELSE IF Len(element.val) = 1
                  THEN Ret(Some(str_text(element.val[1].text)))
                  ELSE Ret(None)
    ELSE Ret(None)

----------------------------------------------------------------------------
(* Bounds of the model *)

MaxRequests == 4     \* no operation starts unless its requests fit under this count

(* Program constants *)

DEFAULT_TIMEOUT_IN_SECONDS == 1

PLAY_STATES == [n \in 0..3 |->
                  CASE n = 0 -> "stopped"
                    [] n = 1 -> "unknown"
                    [] n = 2 -> "playing"
                    [] n = 3 -> "paused"]

----------------------------------------------------------------------------
(* The inputs the caller and the device can supply *)

\* the constructor calls FSAPI(url, pin) and FSAPI(url, pin, timeout)
DeviceUrl == "http://radio/device"
ConstructorArgs == {<<DeviceUrl, "1234", DEFAULT_TIMEOUT_IN_SECONDS>>, <<DeviceUrl, "0000", 5>>}
Items == {"netRemote.sys.info.friendlyName", "netRemote.sys.caps.validModes"}
Values == {Int_(1), Str("Kitchen")}

Endpoint == "http://radio/fsapi"

\* advertisement documents
AdvertOk == El("netRemote", None, <<Leaf("friendlyName", "Radio"), Leaf("webfsapi", Endpoint)>>)
AdvertEmptyEndpoint == El("netRemote", None, <<Leaf("friendlyName", "Radio"), Bare("webfsapi")>>)
AdvertNoEndpoint == El("netRemote", None, <<Leaf("friendlyName", "Radio")>>)

\* API responses
Status(s) == Leaf("status", s)
Response(kids) == El("fsapiResponse", None, kids)
Value(kid) == El("value", None, <<kid>>)
Field(name, kid) == ElA("field", [name |-> Some(name), key |-> None], None, <<kid>>)
Item(key, fields) == ElA("item", [name |-> None, key |-> key], None, fields)

ModeItem0 == Item(Some("0"), <<Field("id", Leaf("c8_array", "IR")),
                              Field("selectable", Leaf("u8", "1")),
                              Field("label", Leaf("c8_array", "Internet radio"))>>)
ModeItem2 == Item(Some("2"), <<Field("id", Leaf("c8_array", "FM")),
                              Field("selectable", Leaf("u8", "1")),
                              Field("label", Leaf("c8_array", "FM"))>>)

Documents == {
    AdvertOk, AdvertEmptyEndpoint, AdvertNoEndpoint,
    El("fsapiResponse", None, <<>>),
    Response(<<Status("FS_OK")>>),
    Response(<<Status("FS_OK"), Leaf("sessionId", "S1")>>),
    Response(<<Status("FS_OK"), Bare("sessionId")>>),
    Response(<<Leaf("sessionId", "S2")>>),
    Response(<<Status("FS_NODE_DOES_NOT_EXIST")>>),
    Response(<<Status("FS_FAIL")>>),
    Response(<<Bare("status")>>),
    Response(<<Status("FS_OK"), Value(Leaf("u8", "0"))>>),
    Response(<<Status("FS_OK"), Value(Leaf("u8", "1"))>>),
    Response(<<Status("FS_OK"), Value(Leaf("u8", "2"))>>),
    Response(<<Status("FS_OK"), Value(Leaf("u8", "3"))>>),
    Response(<<Status("FS_OK"), Value(Leaf("u8", "7"))>>),
    Response(<<Status("FS_OK"), Value(Bare("u8"))>>),
    Response(<<Status("FS_OK"), Value(Leaf("u32", "0"))>>),
    Response(<<Status("FS_OK"), Value(Leaf("u32", "2"))>>),
    Response(<<Status("FS_OK"), Value(Leaf("c8_array", "My Radio"))>>),
    Response(<<Status("FS_OK"), Value(Bare("c8_array"))>>),
    Response(<<Status("FS_OK"), ModeItem0, ModeItem2>>),
    Response(<<Status("FS_FAIL"), ModeItem0>>),
    Response(<<Status("FS_OK"),
               Item(None, <<Field("label", Leaf("c8_array", "DAB")),
                            El("field", None, <<Leaf("u8", "1")>>),
                            Field("count", Leaf("u32", "9"))>>)>>)
}

NotXml == <<>>
Bodies == {NotXml} \cup {<<d>> : d \in Documents}

\* what requests.get can do: raise one of its exceptions, or hand back a reply
TransportErrors == {"ReadTimeout", "ConnectTimeout", "ConnectionError"}
Failed(e) == [exc |-> Some(e), status_code |-> 0, content |-> NotXml]
Reply(code, body) == [exc |-> None, status_code |-> code, content |-> body]

Rejections == {NotXml, <<Response(<<Status("FS_OK"), Leaf("sessionId", "S1")>>)>>}
Responses ==
    {Failed(e) : e \in TransportErrors}
        \cup {Reply(200, b) : b \in Bodies}
        \cup {Reply(c, b) : c \in {403, 404, 500}, b \in Rejections}

\* exception classes of the requests library
IsRequestsTimeout(e) == e \in {"ReadTimeout", "ConnectTimeout"}
IsRequestException(e) == e \in TransportErrors

----------------------------------------------------------------------------
(* The client object and the call primitive *)

Self == [pin |-> pin, sid |-> sid, webfsapi |-> webfsapi,
         fsapi_device_url |-> fsapi_device_url, timeout |-> timeout]

\* a request as handed to requests.get: '%s/%s' % (base, path) is kept as its parts
Request(base, path, params, t) == [base |-> base, path |-> path, params |-> params, timeout |-> t]

\* every function that talks to the device yields the requests it issued and
\* what it returned or raised
Done(reqs, out) == [reqs |-> reqs, out |-> out]

\* int(val) on the texts the device sends; anything that is not a decimal numeral is refused
DecimalValue == [s \in {"0", "1", "2", "3", "7", "9", "02"} |->
                   CASE s = "0" -> 0 [] s = "1" -> 1 [] s = "2" -> 2 [] s = "3" -> 3
                     [] s = "7" -> 7 [] s = "9" -> 9 [] s = "02" -> 2]
int_of(s) == IF s \in DOMAIN DecimalValue THEN Ret(DecimalValue[s]) ELSE Raise("ValueError")

\* get_fsapi_endpoint with its two except clauses in the other order
get_fsapi_endpoint_swapped(self, r) ==
    LET req == Request(self.fsapi_device_url[1], <<>>, EmptyDict, self.timeout[1])
    IN  Done(<<req>>,
          IF Len(r.exc) = 1 /\ IsRequestException(r.exc[1]) THEN Raise("ConnectionError")
          ELSE IF Len(r.exc) = 1 /\ IsRequestsTimeout(r.exc[1]) THEN Raise("TimeoutError")
          ELSE LET doc == fromstring(r.content)
               IN  IF IsRaise(doc) THEN doc
                   ELSE LET api == find(doc.val, Path(<<"webfsapi">>)).val
                        IN  IF Len(api) = 1 /\ StrTruthy(api[1].text)
                            THEN Ret(api[1].text[1])
                            ELSE Raise("ConnectionRefusedError"))

get_fsapi_endpoint(self, r) ==
    LET req == Request(self.fsapi_device_url[1], <<>>, EmptyDict, self.timeout[1])
    IN  Done(<<req>>,
          IF Len(r.exc) = 1 /\ IsRequestsTimeout(r.exc[1]) THEN Raise("TimeoutError")
          ELSE IF Len(r.exc) = 1 /\ IsRequestException(r.exc[1]) THEN Raise("ConnectionError")
          ELSE LET doc == fromstring(r.content)
               IN  IF IsRaise(doc) THEN doc
                   ELSE LET api == find(doc.val, Path(<<"webfsapi">>)).val
                        IN  IF Len(api) = 1 /\ StrTruthy(api[1].text)
                            THEN Ret(api[1].text[1])
                            ELSE Raise("ConnectionRefusedError"))

\* interpret with the body parsed before the HTTP status is looked at
interpret_body_first(r) ==
    LET doc == fromstring(r.content)
    IN  IF IsRaise(doc) THEN doc
        ELSE IF r.status_code = 403 THEN Raise("PermissionError")
        ELSE IF r.status_code = 404 THEN Ret(None)
        ELSE LET status == unpack_xml(Some(doc.val), Path(<<"status">>)).val
             IN  IF status = Some("FS_NODE_DOES_NOT_EXIST") THEN Raise("NotImplementedError")
                 ELSE IF status = Some("FS_OK") THEN Ret(Some(doc.val))
                 ELSE Ret(None)

\* what call does with the reply once requests.get has returned
interpret(r) ==
    IF r.status_code = 403 THEN Raise("PermissionError")
    ELSE IF r.status_code = 404 THEN Ret(None)
    ELSE LET doc == fromstring(r.content)
         IN  IF IsRaise(doc) THEN doc
             ELSE LET status == unpack_xml(Some(doc.val), Path(<<"status">>)).val
                  IN  IF status = Some("FS_NODE_DOES_NOT_EXIST") THEN Raise("NotImplementedError")
                      ELSE IF status = Some("FS_OK") THEN Ret(Some(doc.val))
                      ELSE Ret(None)

\* build_params without the session identifier
build_params_pin_only(self, extra) ==
    LET params0 == [k \in {"pin"} |-> Str(self.pin[1])]
    IN  IF Len(extra) = 1 THEN update(params0, extra[1]) ELSE params0

build_params(self, extra) ==
    LET params0 == [k \in {"pin"} |-> Str(self.pin[1])]
        params1 == IF StrTruthy(self.sid)
                   THEN update(params0, [k \in {"sid"} |-> Str(self.sid[1])])
                   ELSE params0
    IN  IF Len(extra) = 1 THEN update(params1, extra[1]) ELSE params1

\* call handing back the parsed document whatever its status is
call_any_status(self, path, extra, r) ==
    IF ~StrTruthy(self.webfsapi) THEN Done(<<>>, Raise("RuntimeError"))
    ELSE Done(<<Request(self.webfsapi[1], path, build_params(self, extra), self.timeout[1])>>,
              IF Len(r.exc) = 1 THEN Raise(r.exc[1])
              ELSE IF r.status_code = 403 THEN Raise("PermissionError")
              ELSE IF r.status_code = 404 THEN Ret(None)
              ELSE LET doc == fromstring(r.content)
                   IN  IF IsRaise(doc) THEN doc ELSE Ret(Some(doc.val)))

call(self, path, extra, r) ==
    IF ~StrTruthy(self.webfsapi) THEN Done(<<>>, Raise("RuntimeError"))
    ELSE Done(<<Request(self.webfsapi[1], path, build_params(self, extra), self.timeout[1])>>,
              IF Len(r.exc) = 1 THEN Raise(r.exc[1]) ELSE interpret(r))

create_session(self, r) ==
    LET c == call(self, <<"CREATE_SESSION">>, None, r)
    IN  IF IsRaise(c.out) THEN c
        ELSE Done(c.reqs, unpack_xml(c.out.val, Path(<<"sessionId">>)))

\* FSAPI(fsapi_device_url, pin, timeout): the object's fields when __init__ ends,
\* the requests it issued, the replies it consumed and how it ended
init(url, p, t, r1, r2) ==
    LET self0 == [pin |-> Some(p), sid |-> None, webfsapi |-> None,
                  fsapi_device_url |-> Some(url), timeout |-> Some(t)]
        ep == get_fsapi_endpoint(self0, r1)
        self1 == [self0 EXCEPT !.webfsapi = Some(ep.out.val)]
        cs == create_session(self1, r2)
        self2 == [self1 EXCEPT !.sid = cs.out.val]
    IN  IF IsRaise(ep.out)
        THEN [self |-> self0, reqs |-> ep.reqs, resps |-> <<r1>>, out |-> ep.out]
        ELSE IF IsRaise(cs.out)
        THEN [self |-> self1, reqs |-> ep.reqs \o cs.reqs, resps |-> <<r1, r2>>, out |-> cs.out]
        ELSE [self |-> self2, reqs |-> ep.reqs \o cs.reqs, resps |-> <<r1, r2>>, out |-> Ret(None)]

----------------------------------------------------------------------------
(* Handlers *)

handle_get(self, item, r) == call(self, <<"GET", item>>, None, r)

\* the end of handle_set: None for a None status, else status == 'FS_OK'
set_result(reqs, status) ==
    IF status = None THEN Done(reqs, Ret(None))
    ELSE Done(reqs, Ret(Some(status = Some("FS_OK"))))

\* handle_set once call has answered c
set_status(c) ==
    IF IsRaise(c.out) THEN c
    ELSE set_result(c.reqs, unpack_xml(c.out.val, Path(<<"status">>)).val)

\* handle_set without the test for a None status
handle_set_unchecked(self, item, value, r) ==
    LET c == call(self, <<"SET", item>>, Some([k \in {"value"} |-> value]), r)
        status == unpack_xml(c.out.val, Path(<<"status">>)).val
    IN  IF IsRaise(c.out) THEN c
        ELSE Done(c.reqs, Ret(Some(status = Some("FS_OK"))))

handle_set(self, item, value, r) ==
    set_status(call(self, <<"SET", item>>, Some([k \in {"value"} |-> value]), r))

handle_text(self, item, r) ==
    LET c == handle_get(self, item, r)
    IN  IF IsRaise(c.out) THEN c
        ELSE Done(c.reqs, unpack_xml(c.out.val, Path(<<"value", "c8_array">>)))

\* int(val) alone, 0 kept
int_keeping_zero(val) ==
    LET n == int_of(val)
    IN  IF IsRaise(n) THEN n ELSE Ret(Some(n.val))

\* int(val) or None
int_or_None(val) ==
    LET n == int_of(val)
    IN  IF IsRaise(n) THEN n
        ELSE IF n.val = 0 THEN Ret(None) ELSE Ret(Some(n.val))

handle_int(self, item, r) ==
    LET c == handle_get(self, item, r)
        val == unpack_xml(c.out.val, Path(<<"value", "u8">>)).val
    IN  IF IsRaise(c.out) THEN c
        ELSE IF val = None THEN Done(c.reqs, Ret(None))
        ELSE Done(c.reqs, int_or_None(val[1]))

handle_long(self, item, r) ==
    LET c == handle_get(self, item, r)
        val == unpack_xml(c.out.val, Path(<<"value", "u32">>)).val
    IN  IF IsRaise(c.out) THEN c
        ELSE IF val = None THEN Done(c.reqs, Ret(None))
        ELSE Done(c.reqs, int_or_None(val[1]))

\* handle_field for a u8 child: (id, int(v)), unless int raised
int_field(id, n) == IF IsRaise(n) THEN n ELSE Ret(<<id, Some(Int_(n.val))>>)

\* handle_field for a named field whose c8_array gave s and whose u8 gave v
field_value(id, s, v) ==
    IF v # None THEN int_field(id, int_of(v[1]))
    ELSE Ret(<<id, IF s = None THEN None ELSE Some(Str(s[1]))>>)

\* handle_list.handle_field: the pair (name, value) of one field element
handle_field(field) ==
    IF Len(field.attrib.name) = 1
    THEN field_value(field.attrib.name[1],
                     unpack_xml(Some(field), Path(<<"c8_array">>)).val,
                     unpack_xml(Some(field), Path(<<"u8">>)).val)
    ELSE Ret(<<"", None>>)

\* dict(...) taking one more pair f: a later name replaces an earlier one
put_field(prev, f) ==
    IF IsRaise(prev) THEN prev
    ELSE IF IsRaise(f) THEN f
    ELSE Ret(update(prev.val, [k \in {f.val[1]} |-> f.val[2]]))

\* dict(map(handle_field, fields)) over the first n fields
RECURSIVE fields_dict(_, _)
fields_dict(fields, n) ==
    IF n = 0 THEN Ret(EmptyDict)
    ELSE put_field(fields_dict(fields, n - 1), handle_field(fields[n]))

\* dict(map(handle_field, fields))
fields_of(fields) == fields_dict(fields, Len(fields))

\* handle_item once the fields gave ret: the key attribute is added when present
keyed(item, ret) ==
    IF IsRaise(ret) THEN ret
    ELSE IF Len(item.attrib.key) = 1
    THEN Ret(update(ret.val, [k \in {"key"} |-> Some(Str(item.attrib.key[1]))]))
    ELSE ret

\* handle_list.handle_item: the record of one item element
handle_item(item) == keyed(item, fields_of(findall(<<item>>, <<"field">>)))

\* list(...) taking one more record i
put_item(prev, i) ==
    IF IsRaise(prev) THEN prev
    ELSE IF IsRaise(i) THEN i
    ELSE Ret(Append(prev.val, i.val))

\* list(map(handle_item, items)) over the first n items
RECURSIVE items_list(_, _)
items_list(items, n) ==
    IF n = 0 THEN Ret(<<>>)
    ELSE put_item(items_list(items, n - 1), handle_item(items[n]))

\* list(map(handle_item, items))
items_of(items) == items_list(items, Len(items))

\* handle_list once the document doc arrived with the given status
list_items(reqs, doc, status) ==
    IF ~(status = Some("FS_OK")) THEN Done(reqs, Ret(<<>>))
    ELSE Done(reqs, items_of(findall(<<doc>>, <<"item">>)))

\* handle_list once call has answered c
list_result(c) ==
    IF IsRaise(c.out) THEN c
    ELSE IF c.out.val = None THEN Done(c.reqs, Ret(<<>>))
    ELSE list_items(c.reqs, c.out.val[1], unpack_xml(c.out.val, Path(<<"status">>)).val)

\* handle_list with every exception of the call caught and turned into an empty list
handle_list_swallowing(self, item, r) ==
    LET c == call(self, <<"LIST_GET_NEXT", item, "-1">>,
                  Some([k \in {"maxItems"} |-> Int_(100)]), r)
        doc == c.out.val
        status == unpack_xml(doc, Path(<<"status">>)).val
        items == findall(<<doc[1]>>, <<"item">>)
    IN  IF IsRaise(c.out) THEN Done(c.reqs, Ret(<<>>))
        ELSE IF doc = None THEN Done(c.reqs, Ret(<<>>))
        ELSE IF ~(status = Some("FS_OK")) THEN Done(c.reqs, Ret(<<>>))
        ELSE Done(c.reqs, items_list(items, Len(items)))

handle_list(self, item, r) ==
    list_result(call(self, <<"LIST_GET_NEXT", item, "-1">>,
                     Some([k \in {"maxItems"} |-> Int_(100)]), r))

(* Properties *)

\* PLAY_STATES.get(status)
play_states_get(status) ==
    IF Len(status) = 1 /\ status[1] \in DOMAIN PLAY_STATES
    THEN Some(PLAY_STATES[status[1]]) ELSE None

play_status(self, r) ==
    LET c == handle_int(self, "netRemote.play.status", r)
    IN  IF IsRaise(c.out) THEN c ELSE Done(c.reqs, Ret(play_states_get(c.out.val)))

play_control(self, value, r) == handle_set(self, "netRemote.play.control", Int_(value), r)

\* str(n) for the integers int_of yields
DecimalText == [n \in {0, 1, 2, 3, 7, 9} |->
                  CASE n = 0 -> "0" [] n = 1 -> "1" [] n = 2 -> "2" [] n = 3 -> "3"
                    [] n = 7 -> "7" [] n = 9 -> "9"]
str_of_int(n) == DecimalText[n]

\* str(v) for a value of a list record: None, a str or an int
str_item(v) ==
    IF v = None THEN "None"
    ELSE IF "str" \in DOMAIN v[1] THEN v[1].str
    ELSE str_of_int(v[1].int)

\* the loop of the mode getter over the first n records: the last record whose
\* key is wanted gives the label; a record without the subscripted name raises
RECURSIVE mode_scan(_, _, _)
mode_scan(records, n, wanted) ==
    IF n = 0 THEN Ret(None)
    ELSE LET prev == mode_scan(records, n - 1, wanted)
             temp_mode == records[n]
         IN  IF IsRaise(prev) THEN prev
             ELSE IF "key" \notin DOMAIN temp_mode THEN Raise("KeyError")
             ELSE IF temp_mode["key"] = Some(Str(wanted))
             THEN (IF "label" \notin DOMAIN temp_mode THEN Raise("KeyError")
                   ELSE Ret(temp_mode["label"]))
             ELSE prev

\* the property modes
modes(self, r) == handle_list(self, "netRemote.sys.caps.validModes", r)

\* the end of the mode getter: str(mode), unless the loop raised
mode_label(reqs, scan) ==
    IF IsRaise(scan) THEN Done(reqs, scan)
    ELSE Done(reqs, Ret(Some(str_item(scan.val))))

\* the mode getter once handle_long has answered c1; c2 is what self.modes gives,
\* read only when int_mode is not None
mode_of(c1, c2) ==
    IF IsRaise(c1.out) THEN c1
    ELSE IF c1.out.val = None THEN Done(c1.reqs, Ret(Some(str_item(None))))
    ELSE IF IsRaise(c2.out) THEN Done(c1.reqs \o c2.reqs, c2.out)
    ELSE mode_label(c1.reqs \o c2.reqs,
                    mode_scan(c2.out.val, Len(c2.out.val), str_of_int(c1.out.val[1])))

\* the getter of the property mode
mode_get(self, r1, r2) ==
    mode_of(handle_long(self, "netRemote.sys.mode", r1), modes(self, r2))

\* bool(x) for x an Optional[int]
bool_of(x) == Len(x) = 1 /\ x[1] # 0

\* bool(...) applied to what handle_int returned
truth(c) == IF IsRaise(c.out) THEN c ELSE Done(c.reqs, Ret(Some(bool_of(c.out.val))))

\* the getters of the properties mute and power
mute_get(self, r) == truth(handle_int(self, "netRemote.sys.audio.mute", r))

power_get(self, r) == truth(handle_int(self, "netRemote.sys.power", r))

\* a statement whose result is dropped: what it returns is lost, what it raises is not
assigned(c) == IF IsRaise(c.out) THEN c ELSE Done(c.reqs, Ret(None))

\* the requests made so far followed by those of d, ending as d ended
joined(reqs, d) == Done(reqs \o d.reqs, d.out)

\* one round of the loop of the mode setter, sending the label where the code
\* sends the key
mode_set_step_label(self, prev, temp_mode, value, rs) ==
    IF IsRaise(prev.out) THEN prev
    ELSE IF /\ "label" \in DOMAIN temp_mode /\ "key" \in DOMAIN temp_mode
            /\ temp_mode["label"] = Some(Str(value))
            /\ temp_mode["key"] # None
    THEN joined(prev.reqs, assigned(handle_set(self, "netRemote.sys.mode", temp_mode["label"][1],
                                               rs[Len(prev.reqs) + 1])))
    ELSE prev

\* one round of the loop of the mode setter, after the rounds that gave prev: a
\* record that has a label and a key and whose label is the value sets
\* netRemote.sys.mode to its key; rs are the replies to the SET requests, in order
mode_set_step(self, prev, temp_mode, value, rs) ==
    IF IsRaise(prev.out) THEN prev
    ELSE IF /\ "label" \in DOMAIN temp_mode /\ "key" \in DOMAIN temp_mode
            /\ temp_mode["label"] = Some(Str(value))
            /\ temp_mode["key"] # None
    THEN joined(prev.reqs, assigned(handle_set(self, "netRemote.sys.mode", temp_mode["key"][1],
                                               rs[Len(prev.reqs) + 1])))
    ELSE prev

\* the loop of the mode setter over the first n records
RECURSIVE mode_set_scan(_, _, _, _, _)
mode_set_scan(self, records, n, value, rs) ==
    IF n = 0 THEN Done(<<>>, Ret(None))
    ELSE mode_set_step(self, mode_set_scan(self, records, n - 1, value, rs), records[n],
                       value, rs)

\* the mode setter once self.modes has answered c1
mode_set_loop(self, c1, value, rs) ==
    IF IsRaise(c1.out) THEN c1
    ELSE joined(c1.reqs, mode_set_scan(self, c1.out.val, Len(c1.out.val), value, rs))

\* the setter of the property mode
mode_set(self, value, r1, rs) == mode_set_loop(self, modes(self, r1), value, rs)

\* FSAPI.maybe(value, f): the class defines no attribute of that name, so the
\* attribute lookup fails before anything is applied
maybe(value, f) == Raise("AttributeError")

\* int(value) for a bool
int_of_bool(value) == IF value THEN 1 ELSE 0

\* the setters of the properties volume, friendly_name, mute and power
volume_set(self, value, r) ==
    assigned(handle_set(self, "netRemote.sys.audio.volume", Int_(value), r))

friendly_name_set(self, value, r) ==
    assigned(handle_set(self, "netRemote.sys.info.friendlyName", Str(value), r))

mute_set(self, value, r) ==
    assigned(handle_set(self, "netRemote.sys.audio.mute", Int_(int_of_bool(value)), r))

power_set(self, value, r) ==
    assigned(handle_set(self, "netRemote.sys.power", Int_(int_of_bool(value)), r))

----------------------------------------------------------------------------
(* The state machine: one client object, driven by its caller *)

Op(name, args) == [name |-> name, args |-> args]
Pending == [kind |-> "pending", val |-> None]

\* the paths and extra parameters a caller hands to call() directly
CallPaths == {<<"GET", "netRemote.sys.power">>}
CallExtras == {None,
               Some([k \in {"value"} |-> Int_(1)]),
               Some([k \in {"pin"} |-> Str("9999")]),
               Some([k \in {"sid"} |-> Str("S9")])}

\* replies to GET/netRemote.sys.mode and to LIST_GET_NEXT/netRemote.sys.caps.validModes
ModesDoc == Response(<<Status("FS_OK"), ModeItem0, ModeItem2>>)
KeylessModesDoc == Response(<<Status("FS_OK"),
                              Item(None, <<Field("label", Leaf("c8_array", "DAB"))>>)>>)
ModeReplies == {Reply(200, <<Response(<<Status("FS_OK"), Value(Leaf("u32", n))>>)>>) :
                    n \in {"0", "2", "02", "9"}}
                \cup {Reply(200, <<Response(<<Status("FS_OK")>>)>>),
                      Reply(200, <<Response(<<Status("FS_FAIL")>>)>>),
                      Reply(404, NotXml)}
ModesReplies == {Reply(200, <<ModesDoc>>), Reply(200, <<KeylessModesDoc>>),
                 Reply(200, <<Response(<<Status("FS_OK")>>)>>),
                 Reply(200, <<Response(<<Status("FS_NODE_DOES_NOT_EXIST")>>)>>),
                 Reply(403, NotXml), Reply(404, NotXml), Failed("ReadTimeout")}

\* values given to the mode setter and replies to SET/netRemote.sys.mode
ModeLabels == {"FM", "Internet radio", "DAB", "Bluetooth"}
SetReplies == {Reply(200, <<Response(<<Status("FS_OK")>>)>>),
               Reply(200, <<Response(<<Status("FS_FAIL")>>)>>),
               Reply(200, <<Response(<<Status("FS_NODE_DOES_NOT_EXIST")>>)>>),
               Reply(403, NotXml), Reply(404, NotXml), Failed("ConnectionError")}

\* arguments given to FSAPI.maybe: a value and the name of the function applied
MaybeValues == {None, Some(Str("1")), Some(Int_(1)), Some(Str("7"))}
MaybeFunctions == {"int", "str"}

Init ==
    /\ pc = "new"
    /\ pin = None
    /\ sid = None
    /\ webfsapi = None
    /\ fsapi_device_url = None
    /\ timeout = None
    /\ op = Op("none", <<>>)
    /\ sent = <<>>
    /\ resps = <<>>
    /\ outcome = Pending
    /\ nreq = 0

\* the bookkeeping of a method call that also forgets the session when the call raised
Finish_forgetting_session(name, args, d, rs) ==
    /\ op' = Op(name, args)
    /\ sent' = d.reqs
    /\ resps' = SubSeq(rs, 1, Len(d.reqs))
    /\ outcome' = d.out
    /\ nreq' = nreq + Len(d.reqs)
    /\ sid' = IF IsRaise(d.out) THEN None ELSE sid
    /\ UNCHANGED <<pc, pin, webfsapi, fsapi_device_url, timeout>>

\* the bookkeeping every method call leaves behind; the object's fields are not assigned
Finish(name, args, d, rs) ==
    /\ op' = Op(name, args)
    /\ sent' = d.reqs
    /\ resps' = SubSeq(rs, 1, Len(d.reqs))
    /\ outcome' = d.out
    /\ nreq' = nreq + Len(d.reqs)
    /\ UNCHANGED <<pc, pin, sid, webfsapi, fsapi_device_url, timeout>>

Usable(n) == pc = "ready" /\ nreq + n <= MaxRequests

Construct ==
    /\ pc = "new"
    /\ \E a \in ConstructorArgs, r1 \in Responses, r2 \in Responses :
         LET i == init(a[1], a[2], a[3], r1, r2)
         IN  /\ pc' = IF IsRaise(i.out) THEN "aborted" ELSE "ready"
             /\ pin' = i.self.pin
             /\ sid' = i.self.sid
             /\ webfsapi' = i.self.webfsapi
             /\ fsapi_device_url' = i.self.fsapi_device_url
             /\ timeout' = i.self.timeout
             /\ op' = Op("__init__", a)
             /\ sent' = i.reqs
             /\ resps' = i.resps
             /\ outcome' = i.out
             /\ nreq' = nreq + Len(i.reqs)

Call ==
    /\ Usable(1)
    /\ \E path \in CallPaths, extra \in CallExtras, r \in Responses :
         Finish("call", <<path, extra>>, call(Self, path, extra, r), <<r>>)

HandleGet ==
    /\ Usable(1)
    /\ \E item \in Items, r \in Responses :
         Finish("handle_get", <<item>>, handle_get(Self, item, r), <<r>>)

HandleSet ==
    /\ Usable(1)
    /\ \E item \in Items, value \in Values, r \in Responses :
         Finish("handle_set", <<item, value>>, handle_set(Self, item, value, r), <<r>>)

HandleText ==
    /\ Usable(1)
    /\ \E item \in Items, r \in Responses :
         Finish("handle_text", <<item>>, handle_text(Self, item, r), <<r>>)

HandleInt ==
    /\ Usable(1)
    /\ \E item \in Items, r \in Responses :
         Finish("handle_int", <<item>>, handle_int(Self, item, r), <<r>>)

HandleLong ==
    /\ Usable(1)
    /\ \E item \in Items, r \in Responses :
         Finish("handle_long", <<item>>, handle_long(Self, item, r), <<r>>)

HandleList ==
    /\ Usable(1)
    /\ \E item \in Items, r \in Responses :
         Finish("handle_list", <<item>>, handle_list(Self, item, r), <<r>>)

PlayStatus ==
    /\ Usable(1)
    /\ \E r \in Responses :
         Finish("play_status", <<>>, play_status(Self, r), <<r>>)

\* play(), pause(), forward(), rewind() are play_control(1) .. play_control(4)
PlayControl ==
    /\ Usable(1)
    /\ \E value \in 1..4, r \in Responses :
         Finish("play_control", <<value>>, play_control(Self, value, r), <<r>>)

ModeGet ==
    /\ Usable(2)
    /\ \E r1 \in ModeReplies, r2 \in ModesReplies :
         Finish("mode", <<>>, mode_get(Self, r1, r2), <<r1, r2>>)

MuteGet ==
    /\ Usable(1)
    /\ \E r \in Responses :
         Finish("mute", <<>>, mute_get(Self, r), <<r>>)

PowerGet ==
    /\ Usable(1)
    /\ \E r \in Responses :
         Finish("power", <<>>, power_get(Self, r), <<r>>)

ModeSet ==
    /\ Usable(2)
    /\ \E value \in ModeLabels, r1 \in ModesReplies, r2 \in SetReplies :
         \E d \in {mode_set(Self, value, r1, <<r2>>)} :
            Finish("mode_set", <<value>>, d, <<r1, r2>>)

Maybe ==
    \E value \in MaybeValues, f \in MaybeFunctions :
        /\ op' = Op("maybe", <<value, f>>)
        /\ sent' = <<>>
        /\ resps' = <<>>
        /\ outcome' = maybe(value, f)
        /\ UNCHANGED <<pc, pin, sid, webfsapi, fsapi_device_url, timeout, nreq>>

VolumeSet ==
    /\ Usable(1)
    /\ \E value \in {7}, r \in SetReplies :
         Finish("volume_set", <<value>>, volume_set(Self, value, r), <<r>>)

FriendlyNameSet ==
    /\ Usable(1)
    /\ \E value \in {"Kitchen"}, r \in SetReplies :
         Finish("friendly_name_set", <<value>>, friendly_name_set(Self, value, r), <<r>>)

MuteSet ==
    /\ Usable(1)
    /\ \E value \in BOOLEAN, r \in SetReplies :
         Finish("mute_set", <<value>>, mute_set(Self, value, r), <<r>>)

PowerSet ==
    /\ Usable(1)
    /\ \E value \in BOOLEAN, r \in SetReplies :
         Finish("power_set", <<value>>, power_set(Self, value, r), <<r>>)

Next ==
    \/ Construct
    \/ Call
    \/ HandleGet
    \/ HandleSet
    \/ HandleText
    \/ HandleInt
    \/ HandleLong
    \/ HandleList
    \/ PlayStatus
    \/ PlayControl
    \/ ModeGet
    \/ MuteGet
    \/ PowerGet
    \/ ModeSet
    \/ Maybe
    \/ VolumeSet
    \/ FriendlyNameSet
    \/ MuteSet
    \/ PowerSet

Spec == Init /\ [][Next]_vars

----------------------------------------------------------------------------
(* unpack_xml on its own: a static method, applied to a root and a key *)

\* the document of the test fixture xml_test_data
XmlTestData == Response(<<Status("FS_OK"),
                          Value(Leaf("c8_array", "My Radio")),
                          Field("streamable", Leaf("u8", "0"))>>)

UnpackRoots == {None} \cup {Some(d) : d \in Documents \cup {XmlTestData, ModeItem0, Bare("status")}}
UnpackKeys == {Path(<<"status">>), Path(<<"sessionId">>), Path(<<"webfsapi">>),
               Path(<<"value", "c8_array">>), Path(<<"value", "u8">>),
               Path(<<"item", "field">>), Path(<<"field", "u8">>),
               Path(<<"value", "missing">>), Path(<<"missing">>),
               AbsPath(<<"status">>)}

InitUnpack ==
    /\ pc = "unpack"
    /\ pin = None
    /\ sid = None
    /\ webfsapi = None
    /\ fsapi_device_url = None
    /\ timeout = None
    /\ op \in {Op("unpack_xml", <<root, key>>) : root \in UnpackRoots, key \in UnpackKeys}
    /\ sent = <<>>
    /\ resps = <<>>
    /\ outcome = Pending
    /\ nreq = 0

UnpackXml ==
    /\ pc = "unpack"
    /\ pc' = "unpacked"
    /\ outcome' = unpack_xml(op.args[1], op.args[2])
    /\ UNCHANGED <<pin, sid, webfsapi, fsapi_device_url, timeout, op, sent, resps, nreq>>

NextUnpack == UnpackXml

SpecUnpack == InitUnpack /\ [][NextUnpack]_vars

----------------------------------------------------------------------------
(* Properties *)

Returned(v) == outcome.kind = "return" /\ outcome.val = v
Raised(e) == outcome.kind = "raise" /\ outcome.val = e

\* the i-th request of the last operation went through call() and the device replied to it
CallReplied(i) == Len(sent[i].path) > 0 /\ Len(resps[i].exc) = 0

\* the text of the status element of a reply body; None when the body has none
StatusField(content) ==
    IF Len(content) = 0 THEN None
    ELSE LET ss == SelectSeq(content[1].kids, LAMBDA c : c.tag = "status")
         IN  IF Len(ss) = 0 THEN None ELSE ss[1].text

HasChild(content, tag) ==
    Len(content) = 1 /\ \E i \in 1..Len(content[1].kids) : content[1].kids[i].tag = tag

\* C1: no GET/, SET/ or LIST_GET_NEXT/ request is issued unless both the endpoint
\* URL and the session identifier are set.
C1_NoRequestWithoutSession ==
    \A i \in 1..Len(sent) :
        (Len(sent[i].path) > 0 /\ sent[i].path[1] \in {"GET", "SET", "LIST_GET_NEXT"})
            => (webfsapi # None /\ sid # None)

\* C2: construction raises whenever the CREATE_SESSION reply yields no sessionId
\* (HTTP 404, a status other than FS_OK, a missing sessionId element), so that no
\* constructed object has an absent session identifier.
C2_SessionCreationFails ==
    /\ (op.name = "__init__" /\ Len(sent) = 2 /\ Len(resps[2].exc) = 0
          /\ (\/ resps[2].status_code = 404
              \/ StatusField(resps[2].content) # Some("FS_OK")
              \/ ~HasChild(resps[2].content, "sessionId")))
        => outcome.kind = "raise"
    /\ pc = "ready" => sid # None

\* C3: every request sent through call() carries pin equal to the constructor's PIN
\* and, once a session identifier exists, sid equal to it; CREATE_SESSION carries
\* pin and no sid.
C3_PinAndSidOnEveryCall ==
    \A i \in 1..Len(sent) :
        Len(sent[i].path) > 0 =>
            /\ "pin" \in DOMAIN sent[i].params
            /\ sent[i].params["pin"] = Str(pin[1])
            /\ (sid # None /\ sent[i].path # <<"CREATE_SESSION">>) =>
                   ("sid" \in DOMAIN sent[i].params /\ sent[i].params["sid"] = Str(sid[1]))
            /\ sent[i].path = <<"CREATE_SESSION">> => "sid" \notin DOMAIN sent[i].params

\* C4: an HTTP 403 reply to a call raises PermissionError and is the last request of
\* the operation; an HTTP 404 reply makes call() return None and raises nothing;
\* the body of the reply plays no part in either.
C4_HttpErrorStatus ==
    \A i \in 1..Len(sent) :
        CallReplied(i) =>
            /\ resps[i].status_code = 403 => (Raised("PermissionError") /\ i = Len(sent))
            /\ resps[i].status_code = 404 =>
                   (outcome.kind = "return" /\ (op.name = "call" => Returned(None)))

C4_Witness ==
    /\ op.name = "call"
    /\ resps = <<Reply(403, NotXml)>>
    /\ Raised("PermissionError")

\* C5: for a reply whose HTTP status is neither 403 nor 404, the outcome of call()
\* depends on the status field alone: FS_NODE_DOES_NOT_EXIST raises
\* NotImplementedError, FS_OK returns the document, anything else (an absent status
\* included) returns None without raising.
C5_StatusDecidesOutcome ==
    (op.name = "call" /\ Len(sent) = 1 /\ Len(resps[1].exc) = 0
        /\ resps[1].status_code \notin {403, 404}) =>
        LET status == StatusField(resps[1].content)
        IN  CASE status = Some("FS_NODE_DOES_NOT_EXIST") -> Raised("NotImplementedError")
              [] status = Some("FS_OK") -> Returned(Some(resps[1].content[1]))
              [] OTHER -> Returned(None)

\* C6: endpoint resolution raises TimeoutError on a transport timeout, ConnectionError
\* on any other transport error and ConnectionRefusedError on a document whose
\* webfsapi element is missing or empty; in each case construction stops with only
\* the advertisement GET issued and with webfsapi and sid unset.
EndpointMissing(content) ==
    /\ Len(content) = 1
    /\ \A i \in 1..Len(content[1].kids) :
          content[1].kids[i].tag = "webfsapi" => content[1].kids[i].text = None

EndpointFailure(r) ==
    IF Len(r.exc) = 1
    THEN (IF r.exc[1] \in {"ReadTimeout", "ConnectTimeout"} THEN Some("TimeoutError")
          ELSE Some("ConnectionError"))
    ELSE IF EndpointMissing(r.content) THEN Some("ConnectionRefusedError")
    ELSE None

C6_EndpointFailures ==
    (op.name = "__init__" /\ EndpointFailure(resps[1]) # None) =>
        /\ Raised(EndpointFailure(resps[1])[1])
        /\ pc = "aborted"
        /\ Len(sent) = 1 /\ Len(sent[1].path) = 0
        /\ nreq = 1
        /\ webfsapi = None
        /\ sid = None

C6_Witness ==
    /\ op.name = "__init__"
    /\ resps = <<Failed("ConnectTimeout")>>
    /\ Raised("TimeoutError")
    /\ pc = "aborted"

\* C7: unpack_xml never raises; it returns None when root is None or a path segment
\* is not found, and otherwise the text of the located element, "" when it has none.
C7_UnpackReturnsText ==
    pc = "unpacked" =>
        LET root == op.args[1]
            m == findall(<<root[1]>>, op.args[2].segs)
        IN  IF root = None \/ Len(m) = 0 THEN Returned(None)
            ELSE Returned(Some(IF m[1].text = None THEN "" ELSE m[1].text[1]))

\* the reply to the only request of the last operation
TheReply == resps[1]
Replied == Len(sent) = 1 /\ Len(TheReply.exc) = 0
Parsed == Replied /\ TheReply.status_code \notin {403, 404} /\ Len(TheReply.content) = 1

\* C8: list never fails the caller: when the LIST_GET_NEXT call fails or its status
\* is not FS_OK (HTTP 403, HTTP 404, FS_NODE_DOES_NOT_EXIST, any unexpected status),
\* list returns an empty sequence.
C8_ListNeverFails ==
    (op.name = "handle_list" /\ Replied) =>
        /\ TheReply.status_code \in {403, 404} => Returned(<<>>)
        /\ (Parsed /\ StatusField(TheReply.content) # Some("FS_OK")) => Returned(<<>>)

\* C8 as amended: list returns an empty sequence when the call returns None, that is
\* on HTTP 404 and on an XML reply whose status is neither FS_OK nor
\* FS_NODE_DOES_NOT_EXIST; HTTP 403 raises PermissionError and
\* FS_NODE_DOES_NOT_EXIST raises NotImplementedError to the caller.
C8_ListEmptyWhenCallAbsent ==
    (op.name = "handle_list" /\ Replied) =>
        /\ TheReply.status_code = 403 => Raised("PermissionError")
        /\ TheReply.status_code = 404 => Returned(<<>>)
        /\ Parsed =>
             LET status == StatusField(TheReply.content)
             IN  /\ status = Some("FS_NODE_DOES_NOT_EXIST") => Raised("NotImplementedError")
                 /\ status \notin {Some("FS_NODE_DOES_NOT_EXIST"), Some("FS_OK")} => Returned(<<>>)

C8_Witness ==
    /\ op.name = "handle_list"
    /\ TheReply = Reply(200, <<Response(<<Status("FS_FAIL"), ModeItem0>>)>>)
    /\ Returned(<<>>)

\* the SET request that set(item, value) must issue
IsSetRequest(req, item, value) ==
    /\ req.path = <<"SET", item>>
    /\ "value" \in DOMAIN req.params
    /\ req.params["value"] = value

\* C9: set(item, value) issues SET/{item} with value=value, returns true iff the
\* status is FS_OK, false for a status other than FS_OK, and None when the call
\* returned None.
C9_SetTrueFalseAbsent ==
    (op.name = "handle_set" /\ Replied) =>
        LET status == StatusField(TheReply.content)
            ok == Parsed /\ status = Some("FS_OK")
        IN  /\ IsSetRequest(sent[1], op.args[1], op.args[2])
            /\ Returned(Some(TRUE)) <=> ok
            /\ (Parsed /\ status \notin {None, Some("FS_OK"), Some("FS_NODE_DOES_NOT_EXIST")})
                  => Returned(Some(FALSE))
            /\ TheReply.status_code = 404 => Returned(None)

\* C9 as amended: set(item, value) issues SET/{item} with value=value and returns
\* true iff the reply is neither HTTP 403 nor 404 and its status is FS_OK; for a
\* status other than FS_OK and FS_NODE_DOES_NOT_EXIST it returns None, as it does
\* whenever the call returned None; it does not return false.
C9_SetTrueOrAbsent ==
    (op.name = "handle_set" /\ Replied) =>
        LET status == StatusField(TheReply.content)
            ok == Parsed /\ status = Some("FS_OK")
        IN  /\ IsSetRequest(sent[1], op.args[1], op.args[2])
            /\ Returned(Some(TRUE)) <=> ok
            /\ (Parsed /\ status \notin {Some("FS_OK"), Some("FS_NODE_DOES_NOT_EXIST")})
                  => Returned(None)
            /\ TheReply.status_code = 404 => Returned(None)
            /\ ~Returned(Some(FALSE))

C9_Witness ==
    /\ op.name = "handle_set"
    /\ op.args[2] = Str("Kitchen")
    /\ TheReply = Reply(200, <<Response(<<Status("FS_FAIL")>>)>>)
    /\ Returned(None)

\* the value/u8 elements of a reply body, and the playback integer the first one reports
PlaybackElements(content) == findall(content, <<"value", "u8">>)
IsNumeral(text) == Len(text) = 1 /\ text[1] \in DOMAIN DecimalValue
RawPlayback(content) == DecimalValue[PlaybackElements(content)[1].text[1]]

\* C10: play_status maps the playback integer 0 to stopped, 1 to unknown, 2 to
\* playing and 3 to paused; an absent integer or one outside 0..3 maps to None.
C10_PlayStatusMapping ==
    (op.name = "play_status" /\ Parsed /\ StatusField(TheReply.content) = Some("FS_OK")) =>
        LET u8 == PlaybackElements(TheReply.content)
            raw == RawPlayback(TheReply.content)
        IN  /\ Len(u8) = 0 => Returned(None)
            /\ (Len(u8) > 0 /\ IsNumeral(u8[1].text)) =>
                  CASE raw = 0 -> Returned(Some("stopped"))
                    [] raw = 1 -> Returned(Some("unknown"))
                    [] raw = 2 -> Returned(Some("playing"))
                    [] raw = 3 -> Returned(Some("paused"))
                    [] OTHER -> Returned(None)


\* the records of a reply to LIST_GET_NEXT as the device lists them: key and label
ListedItems(content) == findall(content, <<"item">>)
ListedLabel(item) ==
    LET ls == SelectSeq(item.kids, LAMBDA f : f.tag = "field" /\ f.attrib.name = Some("label"))
    IN  ls[1].kids[1].text[1]
KeyMatches(content, n) ==
    SelectSeq(ListedItems(content), LAMBDA i : i.attrib.key = Some(DecimalText[n]))

\* both requests of the mode getter were answered with FS_OK documents, the first
\* with a numeral in value/u32, the second with records that all carry a key
ModeAnswered ==
    /\ op.name = "mode" /\ Len(sent) = 2
    /\ \A i \in 1..2 : /\ Len(resps[i].exc) = 0 /\ resps[i].status_code = 200
                       /\ StatusField(resps[i].content) = Some("FS_OK")
    /\ Len(findall(resps[1].content, <<"value", "u32">>)) > 0
    /\ \A i \in 1..Len(ListedItems(resps[2].content)) :
          ListedItems(resps[2].content)[i].attrib.key # None

\* C11: the mode getter returns the label of the valid-modes record whose key is the
\* decimal text of the current mode integer, and None when no record's key matches.
C11_ModeGetter ==
    ModeAnswered =>
        LET n == DecimalValue[findall(resps[1].content, <<"value", "u32">>)[1].text[1]]
            m == KeyMatches(resps[2].content, n)
        IN  IF Len(m) > 0 THEN Returned(Some(ListedLabel(m[1]))) ELSE Returned(None)


\* the text of the sessionId element of a reply body
SessionIdField(content) ==
    SelectSeq(content[1].kids, LAMBDA c : c.tag = "sessionId")[1].text

\* C12: construction issues the advertisement GET, then CREATE_SESSION, and only then
\* is the object usable; on an object with a session, play() issues exactly one
\* request, SET/netRemote.play.control with value=1, the constructor's pin and the
\* sid that CREATE_SESSION gave, and returns true when the status is FS_OK.
C12_ConstructThenPlay ==
    /\ pc = "ready" => nreq >= 2
    /\ (op.name = "__init__" /\ pc = "ready") =>
          /\ sent = <<Request(op.args[1], <<>>, EmptyDict, op.args[3]),
                      Request(webfsapi[1], <<"CREATE_SESSION">>,
                              [k \in {"pin"} |-> Str(op.args[2])], op.args[3])>>
          /\ sid # None =>
                /\ HasChild(resps[2].content, "sessionId")
                /\ SessionIdField(resps[2].content) # None
                      => sid = SessionIdField(resps[2].content)
    /\ (op.name = "play_control" /\ op.args = <<1>> /\ sid # None) =>
          /\ sent = <<Request(webfsapi[1], <<"SET", "netRemote.play.control">>,
                              [k \in {"pin", "sid", "value"} |->
                                  CASE k = "pin" -> Str(pin[1])
                                    [] k = "sid" -> Str(sid[1])
                                    [] k = "value" -> Int_(1)],
                              timeout[1])>>
          /\ (Replied /\ TheReply.status_code = 200
                /\ StatusField(TheReply.content) = Some("FS_OK")) => Returned(Some(TRUE))

C12_Witness ==
    /\ op.name = "play_control" /\ op.args = <<1>>
    /\ pc = "ready" /\ sid = Some("S1") /\ nreq = 3
    /\ sent[1].params["sid"] = Str("S1")
    /\ Returned(Some(TRUE))


\* C13: extra parameters handed to call() never change the pin or the sid sent: the
\* request's pin is the constructor's PIN and its sid is the stored session identifier.
C13_ReservedKeysKept ==
    (op.name = "call" /\ Len(sent) = 1) =>
        /\ "pin" \in DOMAIN sent[1].params /\ sent[1].params["pin"] = Str(pin[1])
        /\ IF sid = None THEN "sid" \notin DOMAIN sent[1].params
           ELSE "sid" \in DOMAIN sent[1].params /\ sent[1].params["sid"] = Str(sid[1])

\* the first child of a field with one of the given tags, as a sequence of length <= 1
TypedChild(field, tags) == SelectSeq(field.kids, LAMBDA c : c.tag \in tags)

\* C14: on an FS_OK reply list returns one record per item element, in document
\* order; a record maps each field name to an integer when the field has a u8 or
\* u32 child and otherwise to the text of its c8_array child, and holds the item's
\* key attribute under "key".
C14_ListRecords ==
    (op.name = "handle_list" /\ Replied /\ TheReply.status_code = 200
        /\ StatusField(TheReply.content) = Some("FS_OK")) =>
        LET items == ListedItems(TheReply.content)
        IN  /\ outcome.kind = "return"
            /\ Len(outcome.val) = Len(items)
            /\ \A i \in 1..Len(items) :
                  LET rec == outcome.val[i]
                  IN  /\ items[i].attrib.key # None =>
                            ("key" \in DOMAIN rec /\ rec["key"] = Some(Str(items[i].attrib.key[1])))
                      /\ \A j \in 1..Len(items[i].kids) :
                            LET f == items[i].kids[j]
                                num == TypedChild(f, {"u8", "u32"})
                                txt == TypedChild(f, {"c8_array"})
                            IN  (f.tag = "field" /\ f.attrib.name # None) =>
                                  /\ f.attrib.name[1] \in DOMAIN rec
                                  /\ (Len(num) > 0 /\ IsNumeral(num[1].text)) =>
                                        rec[f.attrib.name[1]] = Some(Int_(DecimalValue[num[1].text[1]]))
                                  /\ (Len(num) = 0 /\ Len(txt) > 0 /\ txt[1].text # None) =>
                                        rec[f.attrib.name[1]] = Some(Str(txt[1].text[1]))


\* the only request of the last operation was answered with an FS_OK document
AnsweredOk ==
    Replied /\ TheReply.status_code = 200 /\ StatusField(TheReply.content) = Some("FS_OK")

\* the elements value/u8 (for int8 and the booleans) or value/u32 (for int32) of the reply
IntElements ==
    findall(TheReply.content, <<"value", IF op.name = "handle_long" THEN "u32" ELSE "u8">>)

\* C15: int8 and int32 return None when the value element is missing and when its
\* value is 0, and the parsed integer for any other value; mute and power return
\* false for a missing value and for 0.
C15_ZeroIsAbsent ==
    /\ (op.name \in {"handle_int", "handle_long"} /\ AnsweredOk) =>
          /\ Len(IntElements) = 0 => Returned(None)
          /\ (Len(IntElements) > 0 /\ IsNumeral(IntElements[1].text)) =>
                LET n == DecimalValue[IntElements[1].text[1]]
                IN  IF n = 0 THEN Returned(None) ELSE Returned(Some(n))
    /\ (/\ op.name \in {"mute", "power"}
        /\ AnsweredOk
        /\ \/ Len(IntElements) = 0
           \/ IntElements[1].text = Some("0")) => Returned(Some(FALSE))

C15_Witness ==
    /\ op.name = "power"
    /\ AnsweredOk
    /\ Len(IntElements) > 0 /\ IntElements[1].text = Some("0")
    /\ Returned(Some(FALSE))


\* the request that fetches the valid modes
IsModesRequest(req) ==
    req.path = <<"LIST_GET_NEXT", "netRemote.sys.caps.validModes", "-1">>

\* the mode setter ran and its first request was answered with an FS_OK list
ModesListed ==
    /\ op.name = "mode_set" /\ Len(sent) >= 1
    /\ Len(resps[1].exc) = 0 /\ resps[1].status_code = 200
    /\ StatusField(resps[1].content) = Some("FS_OK")

\* the listed records whose label is the value given to the setter
LabelMatches ==
    SelectSeq(ListedItems(resps[1].content), LAMBDA i : ListedLabel(i) = op.args[1])

\* C16: the mode setter first fetches the valid modes and then sends SET
\* netRemote.sys.mode with the key of the record whose label is the requested value;
\* when no label matches it sends no SET and returns without raising.
C16_ModeSetter ==
    /\ (op.name = "mode_set" /\ Len(sent) >= 1) => IsModesRequest(sent[1])
    /\ ModesListed =>
          IF Len(LabelMatches) = 0
          THEN Len(sent) = 1 /\ Returned(None)
          ELSE LabelMatches[1].attrib.key # None =>
                  /\ Len(sent) = 2
                  /\ IsSetRequest(sent[2], "netRemote.sys.mode",
                                  Str(LabelMatches[1].attrib.key[1]))

C16_Witness ==
    /\ ModesListed
    /\ Len(LabelMatches) = 1
    /\ Len(sent) = 2
    /\ IsSetRequest(sent[2], "netRemote.sys.mode", Str("2"))
    /\ Returned(None)


\* the typed getters and the element of the reply each of them reads
TypedGetters == {"handle_text", "handle_int", "handle_long", "mute", "power",
                 "play_status", "mode"}
GetterTag ==
    CASE op.name = "handle_text" -> "c8_array"
      [] op.name \in {"handle_long", "mode"} -> "u32"
      [] OTHER -> "u8"
GetterElements == findall(TheReply.content, <<"value", GetterTag>>)

\* the reply is HTTP 404, or a document with an unexpected status, or an FS_OK
\* document without the value element or without its text
AmbiguousReply ==
    /\ Replied
    /\ \/ TheReply.status_code = 404
       \/ /\ Parsed
          /\ StatusField(TheReply.content) \notin {Some("FS_OK"), Some("FS_NODE_DOES_NOT_EXIST")}
       \/ /\ Parsed
          /\ StatusField(TheReply.content) = Some("FS_OK")
          /\ \/ Len(GetterElements) = 0
             \/ GetterElements[1].text = None

\* C17: on a 404, an unexpected status, or an FS_OK reply without the value element
\* or its text, a typed getter raises nothing and returns None (false for mute and
\* power).
C17_GettersDegrade ==
    (op.name \in TypedGetters /\ AmbiguousReply) =>
        IF op.name \in {"mute", "power"} THEN Returned(Some(FALSE)) ELSE Returned(None)


\* f(v) for the functions int and str applied to a str or an int
Applied(f, v) ==
    IF f = "int"
    THEN Int_(IF "int" \in DOMAIN v THEN v.int ELSE DecimalValue[v.str])
    ELSE Str(IF "str" \in DOMAIN v THEN v.str ELSE DecimalText[v.int])

\* C18: maybe(value, f) returns None when value is None and f(value) otherwise,
\* e.g. maybe("1", int) is 1 and maybe(1, str) is "1".
C18_MaybeApplies ==
    op.name = "maybe" =>
        IF op.args[1] = None THEN Returned(None)
        ELSE Returned(Some(Applied(op.args[2], op.args[1][1])))


\* the fields of the client object
fields == <<fsapi_device_url, pin, webfsapi, sid, timeout>>

\* C19: the object's fields are written only by the constructor; once construction
\* has completed no operation, whatever the device replies, changes the
\* advertisement URL, the PIN, the endpoint URL, the session identifier or the timeout.
C19_FieldsWrittenOnce ==
    [][/\ pc = "ready" => UNCHANGED fields
       /\ fields' # fields => (pc = "new" /\ op'.name = "__init__")]_vars

C19_Witness ==
    /\ pc = "ready"
    /\ op.name = "mode_set" /\ Len(sent) = 2
    /\ resps[2].status_code = 403 /\ Raised("PermissionError")
    /\ sid = Some("S1") /\ webfsapi = Some(Endpoint)


\* the operations that go through handle_set
SetOperations == {"handle_set", "play_control", "volume_set", "friendly_name_set",
                  "mute_set", "power_set", "mode_set"}

\* C20: call hands back a document only when its status is FS_OK, so handle_set,
\* the play controls and every property setter return true or None or raise; none
\* of them returns false.
C20_SetNeverFalse ==
    /\ (op.name = "call" /\ outcome.kind = "return" /\ outcome.val # None) =>
          StatusField(outcome.val) = Some("FS_OK")
    /\ (op.name \in SetOperations /\ outcome.kind = "return") =>
          outcome.val \in {None, Some(TRUE)}

C20_Witness ==
    /\ op.name = "play_control" /\ op.args[1] = 2
    /\ TheReply = Reply(200, <<Response(<<Status("FS_FAIL")>>)>>)
    /\ IsSetRequest(sent[1], "netRemote.play.control", Int_(2))
    /\ Returned(None)

====
